---- MODULE Spec2Model ----
(***************************************************************************)
(* Model of the FinanceTracker calculators (client/src/lib/utils.ts and    *)
(* its variants): calculateTax, calculateRetirement and the year-by-year   *)
(* retirement projection.                                                  *)
(*                                                                         *)
(* A JavaScript number is modelled as an exact rational [t, n, d] (n/d in  *)
(* lowest terms, d > 0), or NaN; floating-point rounding is abstracted.    *)
(* `undefined` is the result of a missing property lookup.                 *)
(***************************************************************************)
EXTENDS Integers, Sequences, FiniteSets, TLC

----------------------------------------------------------------------------
(* JavaScript values and arithmetic *)

Abs(x) == IF x < 0 THEN -x ELSE x

RECURSIVE GCD(_, _)
GCD(a, b) == IF b = 0 THEN a ELSE GCD(b, a % b)

\* the number n/d, d # 0, in lowest terms with a positive denominator
Rat(n, d) ==
  LET g == GCD(Abs(n), Abs(d))
      s == IF d < 0 THEN -1 ELSE 1
  IN [t |-> "number", n |-> (s * n) \div g, d |-> (s * d) \div g]

Num(i) == Rat(i, 1)

NaN == [t |-> "NaN", n |-> 0, d |-> 1]

Undefined == [t |-> "undefined", n |-> 0, d |-> 1]

IsNum(a) == a.t = "number"

\* a * b (common factors are cancelled before multiplying)
Mul(a, b) ==
  IF IsNum(a) /\ IsNum(b)
  THEN LET g1 == GCD(Abs(a.n), b.d)
           g2 == GCD(Abs(b.n), a.d)
       IN Rat((a.n \div g1) * (b.n \div g2), (a.d \div g2) * (b.d \div g1))
  ELSE NaN

\* a + b (over the least common denominator)
Add(a, b) ==
  IF IsNum(a) /\ IsNum(b)
  THEN LET g == GCD(a.d, b.d)
       IN Rat(a.n * (b.d \div g) + b.n * (a.d \div g), (a.d \div g) * b.d)
  ELSE NaN

\* a - b
Sub(a, b) ==
  IF IsNum(a) /\ IsNum(b)
  THEN LET g == GCD(a.d, b.d)
       IN Rat(a.n * (b.d \div g) - b.n * (a.d \div g), (a.d \div g) * b.d)
  ELSE NaN

\* a / b; 0/0 is NaN (the inputs of the model keep every other divisor
\* non-zero, so Infinity does not arise)
Div(a, b) ==
  IF IsNum(a) /\ IsNum(b) /\ b.n # 0 THEN Mul(a, Rat(b.d, b.n)) ELSE NaN

\* a > b, a < b, a <= b: false as soon as one side is NaN
Gt(a, b) ==
  /\ IsNum(a) /\ IsNum(b)
  /\ LET g == GCD(a.d, b.d) IN a.n * (b.d \div g) > b.n * (a.d \div g)

Lt(a, b) == Gt(b, a)

Le(a, b) ==
  /\ IsNum(a) /\ IsNum(b)
  /\ LET g == GCD(a.d, b.d) IN a.n * (b.d \div g) <= b.n * (a.d \div g)

\* Math.min(a, b), Math.max(a, b): NaN if either argument is NaN
MathMin(a, b) == IF IsNum(a) /\ IsNum(b) THEN (IF Le(a, b) THEN a ELSE b) ELSE NaN

MathMax(a, b) == IF IsNum(a) /\ IsNum(b) THEN (IF Le(a, b) THEN b ELSE a) ELSE NaN

\* Math.pow(x, k) for an integer exponent k of either sign and x # 0
RECURSIVE PowNat(_, _)
PowNat(x, k) == IF k = 0 THEN Num(1) ELSE Mul(x, PowNat(x, k - 1))

MathPow(x, k) == IF k >= 0 THEN PowNat(x, k) ELSE Div(Num(1), PowNat(x, -k))

\* JavaScript truthiness of a number or undefined
Truthy(a) == IsNum(a) /\ a.n # 0

\* a || b
JsOr(a, b) == IF Truthy(a) THEN a ELSE b

Zero == Num(0)

----------------------------------------------------------------------------
(* calculateTax *)

\* the stateRates object literal
stateRates ==
  [s \in {"California", "Texas", "New York", "Florida", "Maryland", "Illinois"} |->
     CASE s = "California" -> Rat(93, 1000)
       [] s = "Texas"      -> Num(0)
       [] s = "New York"   -> Rat(685, 10000)
       [] s = "Florida"    -> Num(0)
       [] s = "Maryland"   -> Rat(575, 10000)
       [] s = "Illinois"   -> Rat(495, 10000)]

\* stateRates[state]: undefined for a name the table does not have
StateRateLookup(state) ==
  IF state \in DOMAIN stateRates THEN stateRates[state] ELSE Undefined

defaultStateRate == Rat(5, 100)

ficaRate == Rat(765, 10000)

\* const federalRate = income > 100000 ? 0.24 : income > 50000 ? 0.22 : 0.12
federalRateInclusiveCutoffs(income) ==
  IF ~Lt(income, Num(100000)) THEN Rat(24, 100)
  ELSE IF ~Lt(income, Num(50000)) THEN Rat(22, 100)
  ELSE Rat(12, 100)

federalRate(income) ==
  IF Gt(income, Num(100000)) THEN Rat(24, 100)
  ELSE IF Gt(income, Num(50000)) THEN Rat(22, 100)
  ELSE Rat(12, 100)

\* const stateRate = stateRates[state] || 0.05
stateRate(state) == JsOr(StateRateLookup(state), defaultStateRate)

\* the variant that taxes each slice of the income at its own bracket's rate
calculateTaxBlended(income, state) ==
  LET low == MathMin(income, Num(50000))
      mid == MathMax(Zero, Sub(MathMin(income, Num(100000)), Num(50000)))
      top == MathMax(Zero, Sub(income, Num(100000)))
  IN [federal |-> Add(Add(Mul(low, Rat(12, 100)), Mul(mid, Rat(22, 100))),
                      Mul(top, Rat(24, 100))),
      state   |-> Mul(income, stateRate(state)),
      fica    |-> Mul(income, ficaRate)]

calculateTax(income, state) ==
  [federal |-> Mul(income, federalRate(income)),
   state   |-> Mul(income, stateRate(state)),
   fica    |-> Mul(income, ficaRate)]

----------------------------------------------------------------------------
(* Inputs of the tax estimator *)

\* incomes explored: multiples of IncomeStep up to MaxIncomeSteps steps on
\* either side of zero, and the values around the two bracket cutoffs
MaxIncomeSteps == 2

IncomeStep == 30000

Incomes ==
  {k * IncomeStep : k \in (-MaxIncomeSteps)..MaxIncomeSteps}
    \cup {-1, 1, 50000, 50001, 100000, 100001}

\* state names: the six listed ones, an unlisted one and the empty string
StateNames == DOMAIN stateRates \cup {"Ohio", ""}

\* the latest calculateTax call: its arguments and its result
VARIABLE lastTax

\* the calculateTax call before it
VARIABLE prevTax

\* the activation of calculateRetirement (salary-growth variant)
VARIABLE retire

\* the latest call of calculateRetirement (annuity variant)
VARIABLE annuity

\* the activation of the year-by-year retirement projection
VARIABLE proj

\* the monthly expense total a component is computing
VARIABLE monthlyExp

\* the last evaluation of calculateMonthlyCashFlow
VARIABLE cashFlow

\* the last entry of the category spending analysis
VARIABLE categorySpending

\* the net monthly income a component last derived from the income record
VARIABLE netIncome

\* the user's row of income_data, the last POST /api/income request and the
\* response to it
VARIABLE incomeRow

VARIABLE request

VARIABLE response

\* the calls of the core functions made so far, with their results
VARIABLE coreCalls

\* the users table, the userId of every session, the expenses table and the
\* response to the last request on the account routes
VARIABLE users

VARIABLE sessions

VARIABLE expenseRows

VARIABLE reply

\* the register requests that have passed the email check and not yet
\* created their user, one per session
VARIABLE registering

\* the income_data table, the upsertIncomeData calls that have read the
\* table and not yet written it, and the data of the last call that returned
VARIABLE incomeRows

VARIABLE upserting

VARIABLE lastUpsert

\* the last rendering of QuickStats
VARIABLE quickStats

accountVars == <<users, sessions, expenseRows, reply>>

concurrentVars == <<registering, incomeRows, upserting, lastUpsert>>

vars ==
  <<lastTax, prevTax, retire, annuity, proj, monthlyExp, cashFlow, categorySpending,
    netIncome, incomeRow, request, response, coreCalls, users, sessions,
    expenseRows, reply, registering, incomeRows, upserting, lastUpsert,
    quickStats>>

\* the state of the server
serverVars == <<incomeRow, request, response, accountVars>>

\* the state of the dashboard components
viewVars == <<monthlyExp, cashFlow, categorySpending, netIncome, coreCalls>>

retireVars == <<retire, annuity, proj>>

taxVars == <<lastTax, prevTax>>

NoTaxCall ==
  [called |-> FALSE, income |-> Zero, state |-> "",
   federal |-> Zero, stateTax |-> Zero, fica |-> Zero]

TaxCall(income, state) ==
  LET r == calculateTax(Num(income), state)
  IN [called |-> TRUE, income |-> Num(income), state |-> state,
      federal |-> r.federal, stateTax |-> r.state, fica |-> r.fica]

InitTax == lastTax = NoTaxCall /\ prevTax = NoTaxCall

\* a component evaluates calculateTax(income, state)
CalculateTax ==
  \E income \in Incomes, state \in StateNames :
    /\ lastTax' = TaxCall(income, state)
    /\ prevTax' = lastTax
    /\ UNCHANGED <<retireVars, viewVars, serverVars,
                 concurrentVars, quickStats>>

----------------------------------------------------------------------------
(* Properties of calculateTax *)

\* the federal bracket of an income: 3 above 100000, 2 above 50000, else 1
BracketOf(income) ==
  IF Gt(income, Num(100000)) THEN 3 ELSE IF Gt(income, Num(50000)) THEN 2 ELSE 1

\* x = income * p / q, with p/q written as two integers
IsShare(x, income, p, q) ==
  IsNum(income) /\ x = Rat(income.n * p, income.d * q)

\* C1: for a state listed with a 0% rate (Texas, Florida) the state component
\* of calculateTax is exactly 0 for every taxable income; calculateTax(100001,
\* "Texas") is federal = 100001*0.24, state = 0, fica = 100001*0.0765.
C1_ZeroRateStateOwesNoStateTax ==
  (lastTax.called /\ lastTax.state \in {"Texas", "Florida"})
    => /\ lastTax.stateTax = Zero
       /\ (lastTax.income = Num(100001) /\ lastTax.state = "Texas")
            => /\ IsShare(lastTax.federal, lastTax.income, 24, 100)
               /\ IsShare(lastTax.fica, lastTax.income, 765, 10000)

\* C2: for every taxable income <= 0 and every state name, the three
\* components returned by calculateTax are all 0.
C2_NonPositiveIncomeOwesNothing ==
  (lastTax.called /\ Le(lastTax.income, Zero))
    => /\ lastTax.federal = Zero
       /\ lastTax.stateTax = Zero
       /\ lastTax.fica = Zero

\* C3: calculateTax applies one federal rate to the whole income: 24% above
\* 100000, 22% above 50000 up to and including 100000, 12% up to and
\* including 50000; there is no blending of brackets.
C3_FederalFlatRatePerBracket ==
  lastTax.called =>
    LET i == lastTax.income.n
    IN /\ lastTax.income.d = 1
       /\ i > 100000 => IsShare(lastTax.federal, lastTax.income, 24, 100)
       /\ (50000 < i /\ i <= 100000)
            => IsShare(lastTax.federal, lastTax.income, 22, 100)
       /\ i <= 50000 => IsShare(lastTax.federal, lastTax.income, 12, 100)

\* C3 witness: the two cutoffs themselves have been taxed, 100000 at 22% and
\* 50000 at 12%
C3_Witness ==
  /\ lastTax.called /\ prevTax.called
  /\ lastTax.income = Num(100000) /\ lastTax.federal = Num(22000)
  /\ prevTax.income = Num(50000) /\ prevTax.federal = Num(6000)

\* the rate the state table lists, 5% for a name it does not list
ListedStateRate(state) ==
  CASE state = "California" -> <<930, 10000>>
    [] state = "Texas"      -> <<0, 10000>>
    [] state = "New York"   -> <<685, 10000>>
    [] state = "Florida"    -> <<0, 10000>>
    [] state = "Maryland"   -> <<575, 10000>>
    [] state = "Illinois"   -> <<495, 10000>>
    [] OTHER                -> <<500, 10000>>

\* C4: for a state name that is not in the table (the empty string included)
\* the state rate is 5% and a value is returned; for a listed state the rate
\* is exactly the listed one.
C4_StateRateListedOrDefault ==
  lastTax.called =>
    IsShare(lastTax.stateTax, lastTax.income,
            ListedStateRate(lastTax.state)[1], ListedStateRate(lastTax.state)[2])

\* C5: for two non-negative incomes a <= b of the same federal bracket and
\* the same state, each component and the sum of the three for a is <= that
\* for b; each component is proportional to income, FICA being 7.65% of the
\* whole income.
TaxSum(c) == Add(Add(c.federal, c.stateTax), c.fica)

Proportional(x, a, y, b) ==
  /\ a = Zero => x = Zero
  /\ b = Zero => y = Zero
  /\ (a # Zero /\ b # Zero) => Div(x, a) = Div(y, b)

C5_MonotoneAndProportionalWithinBracket ==
  ( /\ prevTax.called /\ lastTax.called
    /\ prevTax.state = lastTax.state
    /\ BracketOf(prevTax.income) = BracketOf(lastTax.income)
    /\ Le(Zero, prevTax.income) /\ Le(prevTax.income, lastTax.income) )
    => /\ Le(prevTax.federal, lastTax.federal)
       /\ Le(prevTax.stateTax, lastTax.stateTax)
       /\ Le(prevTax.fica, lastTax.fica)
       /\ Le(TaxSum(prevTax), TaxSum(lastTax))
       /\ Proportional(prevTax.federal, prevTax.income, lastTax.federal, lastTax.income)
       /\ Proportional(prevTax.stateTax, prevTax.income, lastTax.stateTax, lastTax.income)
       /\ Proportional(prevTax.fica, prevTax.income, lastTax.fica, lastTax.income)
       /\ IsShare(lastTax.fica, lastTax.income, 765, 10000)

\* C5 witness: two different positive incomes of the middle bracket have been
\* taxed in the same state, the smaller one first
C5_Witness ==
  /\ prevTax.called /\ lastTax.called
  /\ prevTax.state = "California" /\ lastTax.state = "California"
  /\ prevTax.income = Num(50001) /\ lastTax.income = Num(100000)
  /\ Lt(prevTax.fica, lastTax.fica)

----------------------------------------------------------------------------
(* calculateRetirement, the variant that lets the salary grow: a call is    *)
(* followed step by step, one action per loop iteration                     *)

\* the horizons explored are -MaxYears .. MaxYears years from the current age
MaxYears == 2

CurrentAges == {30}

RetirementAges == {a + k : a \in CurrentAges, k \in (-MaxYears)..MaxYears}

SavingsValues == {Num(0), Num(1000)}

SalaryValues == {Num(0), Num(50000)}

PercentValues == {Num(0), Num(5), Num(10)}

PromotionValues == {Num(0), Num(10)}

AnnualReturns == {Num(0), Rat(7, 100), Rat(10, 100)}

\* the assumptions of the retirement plan the estimator displays next to the
\* projection: inflation rate and withdrawal rate (Undefined: none given)
PlanAssumptions ==
  {[inflationRate |-> Rat(3, 100), withdrawalRate |-> Undefined],
   [inflationRate |-> Rat(3, 100), withdrawalRate |-> Rat(4, 100)],
   [inflationRate |-> Zero, withdrawalRate |-> Rat(5, 100)]}

RetireIdle ==
  [pc |-> "idle", currentAge |-> 0, retirementAge |-> 0,
   planInflationRate |-> Zero, planWithdrawalRate |-> Undefined,
   currentSavings |-> Zero, initialAnnualSalary |-> Zero,
   contribution401kPercent |-> Zero, companyMatch |-> Zero,
   promotionPercentage |-> Zero, annualReturn |-> Zero,
   yearsToRetirement |-> 0, futureValueCurrent |-> Zero,
   totalContributions |-> Zero, currentSalary |-> Zero, year |-> 0,
   employee401k |-> Zero, employerMatch |-> Zero,
   projectedSavings |-> Zero, monthlyIncome |-> Zero]

InitRetire == retire = RetireIdle

\* the salary the contributions of an iteration are computed from: the
\* iteration's currentSalary, the raise being applied at the end of the
\* iteration ("Apply salary increase for next year")
ContributionSalaryRaisedFirst(currentSalary, promotionPercentage) ==
  Mul(currentSalary, Add(Num(1), Div(promotionPercentage, Num(100))))

ContributionSalary(currentSalary, promotionPercentage) == currentSalary

\* const employee401k = currentSalary * (contribution401kPercent / 100)
Employee401k(currentSalary, contribution401kPercent) ==
  Mul(currentSalary, Div(contribution401kPercent, Num(100)))

\* const employerMatch = Math.min(employee401k, currentSalary * (companyMatch / 100))
EmployerMatchUncapped(employee401k, currentSalary, companyMatch) ==
  Mul(currentSalary, Div(companyMatch, Num(100)))

EmployerMatch(employee401k, currentSalary, companyMatch) ==
  MathMin(employee401k, Mul(currentSalary, Div(companyMatch, Num(100))))

\* const yearsOfGrowth = yearsToRetirement - year
YearsOfGrowthAfterDeposit(yearsToRetirement, year) == yearsToRetirement - year - 1

YearsOfGrowth(yearsToRetirement, year) == yearsToRetirement - year

\* const futureValueCurrent = currentSavings * Math.pow(1 + annualReturn, yearsToRetirement)
FutureValueCurrent(currentSavings, annualReturn, yearsToRetirement) ==
  Mul(currentSavings, MathPow(Add(Num(1), annualReturn), yearsToRetirement))

\* entry of calculateRetirement up to the loop
RetireCall ==
  /\ retire.pc = "idle"
  /\ UNCHANGED <<taxVars, annuity, proj, viewVars, serverVars,
                 concurrentVars, quickStats>>
  /\ \E currentAge \in CurrentAges, retirementAge \in RetirementAges,
        currentSavings \in SavingsValues, initialAnnualSalary \in SalaryValues,
        contribution401kPercent \in PercentValues, companyMatch \in PercentValues,
        promotionPercentage \in PromotionValues, annualReturn \in AnnualReturns,
        plan \in PlanAssumptions :
       retire' =
         [pc |-> "loop", currentAge |-> currentAge, retirementAge |-> retirementAge,
          planInflationRate |-> plan.inflationRate,
          planWithdrawalRate |-> plan.withdrawalRate,
          currentSavings |-> currentSavings,
          initialAnnualSalary |-> initialAnnualSalary,
          contribution401kPercent |-> contribution401kPercent,
          companyMatch |-> companyMatch,
          promotionPercentage |-> promotionPercentage,
          annualReturn |-> annualReturn,
          yearsToRetirement |-> retirementAge - currentAge,
          futureValueCurrent |->
            FutureValueCurrent(currentSavings, annualReturn, retirementAge - currentAge),
          totalContributions |-> Zero, currentSalary |-> initialAnnualSalary,
          year |-> 0, employee401k |-> Zero, employerMatch |-> Zero,
          projectedSavings |-> Zero, monthlyIncome |-> Zero]

\* one iteration of for (let year = 0; year < yearsToRetirement; year++)
RetireYear ==
  /\ retire.pc = "loop"
  /\ retire.year < retire.yearsToRetirement
  /\ UNCHANGED <<taxVars, annuity, proj, viewVars, serverVars,
                 concurrentVars, quickStats>>
  /\ LET salary == ContributionSalary(retire.currentSalary, retire.promotionPercentage)
         employee401k == Employee401k(salary, retire.contribution401kPercent)
         employerMatch == EmployerMatch(employee401k, salary, retire.companyMatch)
         annualContribution == Add(employee401k, employerMatch)
         yearsOfGrowth == YearsOfGrowth(retire.yearsToRetirement, retire.year)
         futureValue ==
           Mul(annualContribution,
               MathPow(Add(Num(1), retire.annualReturn), yearsOfGrowth))
     IN retire' =
          [retire EXCEPT
             !.employee401k = employee401k,
             !.employerMatch = employerMatch,
             !.totalContributions = Add(retire.totalContributions, futureValue),
             !.currentSalary =
               Mul(retire.currentSalary,
                   Add(Num(1), Div(retire.promotionPercentage, Num(100)))),
             !.year = retire.year + 1]

\* after the loop: projectedSavings and the 4% rule
RetireReturn ==
  /\ retire.pc = "loop"
  /\ ~(retire.year < retire.yearsToRetirement)
  /\ UNCHANGED <<taxVars, annuity, proj, viewVars, serverVars,
                 concurrentVars, quickStats>>
  /\ LET projectedSavings == Add(retire.futureValueCurrent, retire.totalContributions)
     IN retire' =
          [retire EXCEPT
             !.pc = "done",
             !.projectedSavings = projectedSavings,
             !.monthlyIncome = Div(Mul(projectedSavings, Rat(4, 100)), Num(12))]

NextRetire == RetireCall \/ RetireYear \/ RetireReturn

----------------------------------------------------------------------------
(* calculateRetirement, the annuity variant of client/src/lib/utils.ts      *)

\* horizons of the annuity variant: -MaxAnnuityYears .. MaxAnnuityYears years
MaxAnnuityYears == 1

AnnuityAges == {30, 40}

AnnuitySavings == {Num(0), Num(10), Num(50)}

AnnuityContributions == {Num(0), Num(5), Num(10)}

\* annual returns whose monthly compounding factor 1 + r/12 is an integer,
\* so that its 12-month powers stay representable: 0, 1200% and -2400%
AnnuityReturns == {Num(0), Num(12), Num(-24)}

AnnuityIdle ==
  [called |-> FALSE, currentAge |-> 0, retirementAge |-> 0,
   currentSavings |-> Zero, monthlyContribution |-> Zero, annualReturn |-> Zero,
   projectedSavings |-> Zero, monthlyIncome |-> Zero]

InitAnnuity == annuity = AnnuityIdle

\* const futureValueContributions = monthlyContribution *
\*   (Math.pow(1 + monthlyReturn, monthsToRetirement) - 1) / monthlyReturn
FutureValueContributions(monthlyContribution, monthlyReturn, monthsToRetirement) ==
  Div(Mul(monthlyContribution,
          Sub(MathPow(Add(Num(1), monthlyReturn), monthsToRetirement), Num(1))),
      monthlyReturn)

calculateRetirementAnnuity(currentAge, retirementAge, currentSavings, monthlyContribution, annualReturn) ==
  LET yearsToRetirement == retirementAge - currentAge
      monthsToRetirement == yearsToRetirement * 12
      monthlyReturn == Div(annualReturn, Num(12))
      futureValueCurrent ==
        FutureValueCurrent(currentSavings, annualReturn, yearsToRetirement)
      futureValueContributions ==
        FutureValueContributions(monthlyContribution, monthlyReturn, monthsToRetirement)
      projectedSavings == Add(futureValueCurrent, futureValueContributions)
  IN [projectedSavings |-> projectedSavings,
      monthlyIncome |-> Div(Mul(projectedSavings, Rat(4, 100)), Num(12))]

\* a component evaluates calculateRetirement(currentAge, retirementAge,
\* currentSavings, monthlyContribution, annualReturn)
CalculateRetirementAnnuity ==
  /\ ~annuity.called
  /\ UNCHANGED <<taxVars, retire, proj, viewVars, serverVars,
                 concurrentVars, quickStats>>
  /\ \E currentAge \in AnnuityAges, k \in (-MaxAnnuityYears)..MaxAnnuityYears,
        currentSavings \in AnnuitySavings,
        monthlyContribution \in AnnuityContributions,
        annualReturn \in AnnuityReturns :
       LET r == calculateRetirementAnnuity(currentAge, currentAge + k, currentSavings,
                                           monthlyContribution, annualReturn)
       IN annuity' =
            [called |-> TRUE, currentAge |-> currentAge,
             retirementAge |-> currentAge + k,
             currentSavings |-> currentSavings,
             monthlyContribution |-> monthlyContribution,
             annualReturn |-> annualReturn,
             projectedSavings |-> r.projectedSavings,
             monthlyIncome |-> r.monthlyIncome]

----------------------------------------------------------------------------
(* The year-by-year retirement projection called by RetirementEstimator     *)
(* (calculateRetirement with eleven arguments).  Its body is not among the  *)
(* sources; it is modelled from section 4.2 of the specification.           *)

\* horizons on which the reference rates (7% nominal, 3% inflation) are run
MaxReferenceYears == 1

RothAnnualContribution == 7000

ProjBalances401k == {Num(0), Num(1000)}

ProjBalancesRoth == {Num(0), Num(500)}

ProjBalancesOther == {Num(0), Num(2000)}

ProjMonthlySavings == {Num(0), Num(500), Num(2000)}

\* <<nominal return, inflation rate>>
ProjRates == {<<Rat(10, 100), Num(0)>>, <<Rat(3, 100), Rat(3, 100)>>}

ReferenceRates == <<Rat(7, 100), Rat(3, 100)>>

DefaultWithdrawalRate == Rat(4, 100)

\* the longest horizon on which the calculation trace is followed
MaxTraceYears == 8

\* <<nominal return, inflation rate>> of the long horizons: the balances
\* double every year and stay integers
TraceRates == <<Num(1), Num(0)>>

\* the inputs of the long projections
TraceInputs ==
  [years : 0..MaxTraceYears, rates : {TraceRates},
   salary : SalaryValues, current401k : {Num(1000)},
   currentRothIRA : {Num(0)}, currentOther : {Num(2000)},
   contribution401kPct : {Num(5)}, companyMatchPct : {Num(5)},
   promotionPct : {Num(0)}, monthlySavings : ProjMonthlySavings]

\* the inputs of a projection: every combination on the general rates and
\* horizons, and every combination on the reference rates and horizons
ProjInputs ==
  [years : (-MaxYears)..MaxYears, rates : ProjRates,
   salary : SalaryValues, current401k : ProjBalances401k,
   currentRothIRA : ProjBalancesRoth, currentOther : ProjBalancesOther,
   contribution401kPct : PercentValues, companyMatchPct : PercentValues,
   promotionPct : PromotionValues, monthlySavings : ProjMonthlySavings]
  \cup
  [years : 0..MaxReferenceYears, rates : {ReferenceRates},
   salary : SalaryValues, current401k : ProjBalances401k,
   currentRothIRA : ProjBalancesRoth, currentOther : ProjBalancesOther,
   contribution401kPct : {Num(0), Num(5)}, companyMatchPct : {Num(0), Num(5)},
   promotionPct : {Num(0)}, monthlySavings : ProjMonthlySavings]
  \cup TraceInputs

\* step 3.7: the trace entries appended in projected year `year` of `years`:
\* an entry for years 1-5 and the final year, one placeholder for the rest
TraceEntriesNoPlaceholder(year, years) ==
  IF year <= 5 \/ year = years THEN <<[kind |-> "year", year |-> year]>> ELSE <<>>

TraceEntries(year, years) ==
  IF year <= 5 \/ year = years THEN <<[kind |-> "year", year |-> year]>>
  ELSE IF year = 6 THEN <<[kind |-> "placeholder", year |-> 0]>>
  ELSE <<>>

\* real = (1 + nominalReturn) / (1 + inflationRate) - 1
RealRate(nominalReturn, inflationRate) ==
  Sub(Div(Add(Num(1), nominalReturn), Add(Num(1), inflationRate)), Num(1))

\* balance = (balance + contribution) * (1 + real)
DepositThenGrow(balance, contribution, real) ==
  Mul(Add(balance, contribution), Add(Num(1), real))

\* the fixed annual Roth IRA contribution
RothContributionOfSalary(salary, contribution401kPct) ==
  MathMin(Num(RothAnnualContribution), Mul(salary, Div(contribution401kPct, Num(100))))

RothContribution(salary, contribution401kPct) == Num(RothAnnualContribution)

\* remaining = max(0, monthlySavings*12 - totalRetirementContribs)
RemainingSavingsUnclamped(monthlySavings, totalRetirementContribs) ==
  Sub(Mul(monthlySavings, Num(12)), totalRetirementContribs)

RemainingSavings(monthlySavings, totalRetirementContribs) ==
  MathMax(Zero, Sub(Mul(monthlySavings, Num(12)), totalRetirementContribs))

ProjIdle ==
  [pc |-> "idle", years |-> 0, year |-> 0,
   nominalReturn |-> Zero, inflationRate |-> Zero, real |-> Zero,
   withdrawalRate |-> Zero,
   startSalary |-> Zero, current401k |-> Zero, currentRothIRA |-> Zero,
   currentOther |-> Zero, startMonthlySavings |-> Zero,
   contribution401kPct |-> Zero, companyMatchPct |-> Zero, promotionPct |-> Zero,
   salary |-> Zero, balance401k |-> Zero, balanceRoth |-> Zero,
   balanceOther |-> Zero, monthlySavings |-> Zero,
   employeeContrib |-> Zero, companyMatch |-> Zero, remaining |-> Zero,
   calculationSteps |-> <<>>,
   projectedSavings |-> Zero, monthlyIncome |-> Zero]

InitProj == proj = ProjIdle

\* steps 1 and 2: the real rate and the working state
ProjectCall ==
  /\ proj.pc = "idle"
  /\ UNCHANGED <<taxVars, retire, annuity, viewVars, serverVars,
                 concurrentVars, quickStats>>
  /\ \E in \in ProjInputs :
       proj' =
         [ProjIdle EXCEPT
            !.pc = "loop", !.years = in.years, !.year = 0,
            !.nominalReturn = in.rates[1], !.inflationRate = in.rates[2],
            !.real = RealRate(in.rates[1], in.rates[2]),
            !.withdrawalRate = DefaultWithdrawalRate,
            !.startSalary = in.salary, !.current401k = in.current401k,
            !.currentRothIRA = in.currentRothIRA, !.currentOther = in.currentOther,
            !.startMonthlySavings = in.monthlySavings,
            !.contribution401kPct = in.contribution401kPct,
            !.companyMatchPct = in.companyMatchPct,
            !.promotionPct = in.promotionPct,
            !.salary = in.salary, !.balance401k = in.current401k,
            !.balanceRoth = in.currentRothIRA, !.balanceOther = in.currentOther,
            !.monthlySavings = in.monthlySavings]

\* step 3: one projected year
ProjectYear ==
  /\ proj.pc = "loop"
  /\ proj.year < proj.years
  /\ UNCHANGED <<taxVars, retire, annuity, viewVars, serverVars,
                 concurrentVars, quickStats>>
  /\ LET raise == Add(Num(1), Div(proj.promotionPct, Num(100)))
         salary == Mul(proj.salary, raise)
         employeeContrib == Mul(salary, Div(proj.contribution401kPct, Num(100)))
         companyMatch == Mul(salary, Div(proj.companyMatchPct, Num(100)))
         roth == RothContribution(salary, proj.contribution401kPct)
         totalRetirementContribs == Add(Add(employeeContrib, companyMatch), roth)
         remaining == RemainingSavings(proj.monthlySavings, totalRetirementContribs)
     IN proj' =
          [proj EXCEPT
             !.year = proj.year + 1,
             !.salary = salary,
             !.employeeContrib = employeeContrib,
             !.companyMatch = companyMatch,
             !.balance401k =
               DepositThenGrow(proj.balance401k, Add(employeeContrib, companyMatch),
                               proj.real),
             !.balanceRoth = DepositThenGrow(proj.balanceRoth, roth, proj.real),
             !.remaining = remaining,
             !.balanceOther = DepositThenGrow(proj.balanceOther, remaining, proj.real),
             !.monthlySavings = Mul(proj.monthlySavings, raise),
             !.calculationSteps =
               proj.calculationSteps \o TraceEntries(proj.year + 1, proj.years)]

\* step 4: the summary metrics
ProjectReturn ==
  /\ proj.pc = "loop"
  /\ ~(proj.year < proj.years)
  /\ UNCHANGED <<taxVars, retire, annuity, viewVars, serverVars,
                 concurrentVars, quickStats>>
  /\ LET projectedSavings ==
           Add(Add(proj.balance401k, proj.balanceRoth), proj.balanceOther)
     IN proj' =
          [proj EXCEPT
             !.pc = "done",
             !.projectedSavings = projectedSavings,
             !.monthlyIncome =
               Div(Mul(projectedSavings, proj.withdrawalRate), Num(12))]

NextProject == ProjectCall \/ ProjectYear \/ ProjectReturn

----------------------------------------------------------------------------
(* The monthly expense total: expenses.reduce over the expense list, one    *)
(* copy per component                                                       *)

\* the longest expense list
MaxExpenses == 2

\* the frequencies ExpenseManager offers
FREQUENCIES == {"monthly", "weekly", "bi-weekly", "yearly", "one-time"}

ExpenseAmounts == {Num(100), Num(1200)}

Expenses == [amount : ExpenseAmounts, frequency : FREQUENCIES]

\* the sequences over S of length at most n
RECURSIVE SeqsUpTo(_, _)
SeqsUpTo(S, n) ==
  IF n = 0 THEN {<<>>}
  ELSE LET shorter == SeqsUpTo(S, n - 1)
       IN shorter \cup {Append(q, x) : q \in {r \in shorter : Len(r) = n - 1}, x \in S}

\* the components holding a copy of the reduce; BudgetAnalysisLib is the copy
\* of BudgetAnalysis in client/src/lib/utils.ts
ExpenseComponents ==
  {"QuickStats", "BudgetAnalysis", "BudgetAnalysisLib", "RetirementEstimator",
   "ForecastChart"}

\* switch (expense.frequency) of a component: the monthly amount of an expense
MonthlyAmount(component, expense) ==
  CASE expense.frequency = "monthly" -> expense.amount
    [] expense.frequency = "weekly" -> Mul(expense.amount, Rat(433, 100))
    [] expense.frequency = "bi-weekly" -> Mul(expense.amount, Rat(217, 100))
    [] expense.frequency = "yearly" /\ component = "BudgetAnalysisLib" ->
         Div(expense.amount, Num(12))
    [] expense.frequency = "one-time" -> Div(expense.amount, Num(12))
    [] OTHER -> expense.amount

MonthlyExpIdle ==
  [pc |-> "idle", component |-> "", expenses |-> <<>>, index |-> 0, total |-> Zero]

InitMonthlyExp == monthlyExp = MonthlyExpIdle

\* a component starts expenses.reduce(..., 0) on the expense list
MonthlyExpensesStart ==
  /\ monthlyExp.pc = "idle"
  /\ UNCHANGED <<taxVars, retireVars, cashFlow, categorySpending, netIncome, serverVars, coreCalls,
                 concurrentVars, quickStats>>
  /\ \E component \in ExpenseComponents, expenses \in SeqsUpTo(Expenses, MaxExpenses) :
       monthlyExp' =
         [pc |-> "reduce", component |-> component, expenses |-> expenses,
          index |-> 0, total |-> Zero]

\* one call of the reducer
MonthlyExpensesReduce ==
  /\ monthlyExp.pc = "reduce"
  /\ monthlyExp.index < Len(monthlyExp.expenses)
  /\ UNCHANGED <<taxVars, retireVars, cashFlow, categorySpending, netIncome, serverVars, coreCalls,
                 concurrentVars, quickStats>>
  /\ monthlyExp' =
       [monthlyExp EXCEPT
          !.index = monthlyExp.index + 1,
          !.total =
            Add(monthlyExp.total,
                MonthlyAmount(monthlyExp.component,
                              monthlyExp.expenses[monthlyExp.index + 1]))]

NextMonthlyExp == MonthlyExpensesStart \/ MonthlyExpensesReduce

----------------------------------------------------------------------------
(* calculateMonthlyCashFlow(monthlyIncome, monthlyExpenses)                 *)

\* monthly amounts: -MaxCashSteps .. MaxCashSteps times CashStep
MaxCashSteps == 5

CashStep == 1000

CashAmounts == {Num(i * CashStep) : i \in (-MaxCashSteps)..MaxCashSteps}

\* const percentage = monthlyIncome > 0 ? (amount / monthlyIncome) * 100 : 0
CashFlowPercentageUnguarded(monthlyIncome, amount) ==
  Mul(Div(amount, monthlyIncome), Num(100))

CashFlowPercentage(monthlyIncome, amount) ==
  IF Gt(monthlyIncome, Zero) THEN Mul(Div(amount, monthlyIncome), Num(100)) ELSE Zero

\* let status = 'break-even'; if (amount > 0) ... else if (amount < 0) ...
CashFlowStatus(amount) ==
  IF Gt(amount, Zero) THEN "positive"
  ELSE IF Lt(amount, Zero) THEN "negative"
  ELSE "break-even"

\* a variant that keeps a count of the calls made
calculateMonthlyCashFlowCounting(monthlyIncome, monthlyExpenses) ==
  LET amount == Sub(Sub(monthlyIncome, monthlyExpenses), Num(Len(coreCalls)))
  IN [amount |-> amount,
      percentage |-> CashFlowPercentage(monthlyIncome, amount),
      status |-> CashFlowStatus(amount)]

calculateMonthlyCashFlow(monthlyIncome, monthlyExpenses) ==
  LET amount == Sub(monthlyIncome, monthlyExpenses)
  IN [amount |-> amount,
      percentage |-> CashFlowPercentage(monthlyIncome, amount),
      status |-> CashFlowStatus(amount)]

CashFlowIdle ==
  [called |-> FALSE, monthlyIncome |-> Zero, monthlyExpenses |-> Zero,
   amount |-> Zero, percentage |-> Zero, status |-> "break-even"]

InitCashFlow == cashFlow = CashFlowIdle

\* a component evaluates calculateMonthlyCashFlow(monthlyIncome, monthlyExpenses)
CalculateMonthlyCashFlow ==
  /\ UNCHANGED <<taxVars, retireVars, monthlyExp, categorySpending, netIncome, serverVars, coreCalls,
                 concurrentVars, quickStats>>
  /\ \E monthlyIncome \in CashAmounts, monthlyExpenses \in CashAmounts :
       LET r == calculateMonthlyCashFlow(monthlyIncome, monthlyExpenses)
       IN cashFlow' =
            [called |-> TRUE, monthlyIncome |-> monthlyIncome,
             monthlyExpenses |-> monthlyExpenses, amount |-> r.amount,
             percentage |-> r.percentage, status |-> r.status]

----------------------------------------------------------------------------
(* BudgetAnalysis: the category spending analysis                           *)

CATEGORY_BUDGETS ==
  ("Rent" :> Rat(30, 100)) @@ ("Groceries" :> Rat(10, 100)) @@
  ("Transportation" :> Rat(15, 100)) @@ ("Entertainment" :> Rat(5, 100)) @@
  ("Healthcare" :> Rat(8, 100)) @@ ("Utilities" :> Rat(6, 100)) @@
  ("Insurance" :> Rat(10, 100)) @@ ("Student Debt" :> Rat(10, 100)) @@
  ("Shopping" :> Rat(6, 100)) @@ ("Dining Out" :> Rat(8, 100)) @@
  ("Roth IRA" :> Rat(10, 100)) @@ ("Other" :> Rat(5, 100))

\* the table of client/src/components/budget-analysis.tsx
COMPONENT_CATEGORY_BUDGETS ==
  ("Rent" :> Rat(30, 100)) @@ ("Groceries" :> Rat(10, 100)) @@
  ("Transportation" :> Rat(15, 100)) @@ ("Entertainment" :> Rat(5, 100)) @@
  ("Healthcare" :> Rat(8, 100)) @@ ("Utilities" :> Rat(6, 100)) @@
  ("Insurance" :> Rat(10, 100)) @@ ("Student Debt" :> Rat(10, 100)) @@
  ("Shopping" :> Rat(6, 100))

\* the two versions of BudgetAnalysis and the table each one reads
BudgetAnalysisVersions == {"BudgetAnalysis", "BudgetAnalysisLib"}

CategoryBudgetsOf(version) ==
  IF version = "BudgetAnalysisLib" THEN CATEGORY_BUDGETS ELSE COMPONENT_CATEGORY_BUDGETS

\* CATEGORY_BUDGETS[category]
CategoryBudgetLookup(version, category) ==
  IF category \in DOMAIN CategoryBudgetsOf(version)
  THEN CategoryBudgetsOf(version)[category]
  ELSE Undefined

\* const budgetPercentage = CATEGORY_BUDGETS[category] || 0.05
BudgetPercentage(version, category) ==
  JsOr(CategoryBudgetLookup(version, category), Rat(5, 100))

\* categories analysed: listed ones and one the table does not list
AnalysedCategories == {"Rent", "Groceries", "Dining Out", "Other", "Travel"}

\* monthly totals of a category
CategoryAmounts == {Num(100), Num(255), Num(256), Num(300), Num(301), Num(1000)}

\* net monthly incomes
NetMonthlyIncomes == {Num(-1000), Num(0), Num(1000), Num(3000)}

\* const budget = netMonthlyIncome * budgetPercentage
CategoryBudget(netMonthlyIncome, budgetPercentage) ==
  Mul(netMonthlyIncome, budgetPercentage)

\* const percentage = budget > 0 ? (amount / budget) * 100 : 0
BudgetUsedPercentage(amount, budget) ==
  IF Gt(budget, Zero) THEN Mul(Div(amount, budget), Num(100)) ELSE Zero

\* if (percentage > 100) status = "over"; else if (percentage > 85) ...
BudgetStatus(percentage) ==
  IF Gt(percentage, Num(100)) THEN "over"
  ELSE IF Gt(percentage, Num(85)) THEN "warning"
  ELSE "good"

CategorySpendingIdle ==
  [called |-> FALSE, version |-> "", category |-> "", netMonthlyIncome |-> Zero,
   amount |-> Zero, budgetPercentage |-> Zero, budget |-> Zero, percentage |-> Zero,
   status |-> "good"]

InitCategorySpending == categorySpending = CategorySpendingIdle

\* the analysis entry of one category present in categoryTotals
AnalyseCategory ==
  /\ UNCHANGED <<taxVars, retireVars, monthlyExp, cashFlow, netIncome, serverVars, coreCalls,
                 concurrentVars, quickStats>>
  /\ \E version \in BudgetAnalysisVersions, category \in AnalysedCategories,
        amount \in CategoryAmounts, netMonthlyIncome \in NetMonthlyIncomes :
       LET budgetPercentage == BudgetPercentage(version, category)
           budget == CategoryBudget(netMonthlyIncome, budgetPercentage)
           percentage == BudgetUsedPercentage(amount, budget)
       IN categorySpending' =
            [called |-> TRUE, version |-> version, category |-> category,
             netMonthlyIncome |-> netMonthlyIncome, amount |-> amount,
             budgetPercentage |-> budgetPercentage,
             budget |-> budget, percentage |-> percentage,
             status |-> BudgetStatus(percentage)]

----------------------------------------------------------------------------
(* The net monthly income, one derivation per component                     *)

\* the income record: parsed annualSalary, contribution401k (a percentage),
\* sideHustleIncome and state
IncomeSalaries == {Num(0), Num(60000), Num(120000)}

IncomeContributionPercents == {Num(0), Num(10)}

IncomeSideHustles == {Num(0), Num(12000)}

IncomeStates == {"California", "Texas"}

IncomeRecords ==
  [annualSalary : IncomeSalaries, contribution401k : IncomeContributionPercents,
   sideHustleIncome : IncomeSideHustles, state : IncomeStates]

\* QuickStats and BudgetAnalysis each exist in two versions: those of
\* client/src/components and the second QuickStats of quick-stats.tsx
\* (QuickStatsGross), the BudgetAnalysis of client/src/lib/utils.ts
\* (BudgetAnalysisLib); CashFlowOfIncome is calculateMonthlyCashFlow(income,
\* expenses)
NetIncomeComponents ==
  {"QuickStats", "QuickStatsGross", "BudgetAnalysis", "BudgetAnalysisLib",
   "RetirementEstimator", "CashFlowOfIncome"}

TaxTotal(taxes) == Add(Add(taxes.federal, taxes.state), taxes.fica)

\* taxableIncome = salary + sideHustle - salary * contribution401kPercent / 100
TaxableIncome(income) ==
  Sub(Add(income.annualSalary, income.sideHustleIncome),
      Div(Mul(income.annualSalary, income.contribution401k), Num(100)))

\* netAnnual / 12 with taxes computed on the taxable income
NetMonthlyOnTaxable(income) ==
  LET taxableIncome == TaxableIncome(income)
      taxes == calculateTax(taxableIncome, income.state)
  IN Div(Sub(taxableIncome, TaxTotal(taxes)), Num(12))

\* the same, with no taxes unless grossAnnual > 0
NetMonthlyOnTaxableGuarded(income) ==
  LET grossAnnual == Add(income.annualSalary, income.sideHustleIncome)
      taxableIncome == TaxableIncome(income)
      taxes == IF Gt(grossAnnual, Zero) THEN TaxTotal(calculateTax(taxableIncome, income.state))
               ELSE Zero
  IN Div(Sub(taxableIncome, taxes), Num(12))

\* taxes on the gross salary, side hustle income left out
NetMonthlyOnGross(income) ==
  LET grossAnnual == income.annualSalary
      taxCalc == calculateTax(grossAnnual, income.state)
      netAnnual ==
        Sub(Sub(grossAnnual, TaxTotal(taxCalc)),
            Div(Mul(grossAnnual, income.contribution401k), Num(100)))
  IN Div(netAnnual, Num(12))

\* taxes on the gross salary, the contribution taken as parseFloat(...) / 12
NetMonthlyBudgetAnalysis(income) ==
  LET grossAnnual == income.annualSalary
      grossMonthly == Div(grossAnnual, Num(12))
      taxes == calculateTax(grossAnnual, income.state)
      contribution401k == Div(income.contribution401k, Num(12))
  IN Sub(Sub(Sub(Sub(grossMonthly, Div(taxes.federal, Num(12))),
                 Div(taxes.state, Num(12))),
             Div(taxes.fica, Num(12))),
         contribution401k)

NetMonthlyIncome(component, income) ==
  CASE component = "QuickStats" -> NetMonthlyOnTaxable(income)
    [] component \in {"BudgetAnalysisLib", "RetirementEstimator"} ->
         NetMonthlyOnTaxableGuarded(income)
    [] component \in {"QuickStatsGross", "CashFlowOfIncome"} -> NetMonthlyOnGross(income)
    [] component = "BudgetAnalysis" -> NetMonthlyBudgetAnalysis(income)

NetIncomeIdle ==
  [called |-> FALSE, component |-> "",
   income |-> [annualSalary |-> Zero, contribution401k |-> Zero,
               sideHustleIncome |-> Zero, state |-> ""],
   netMonthlyIncome |-> Zero]

InitNetIncome == netIncome = NetIncomeIdle

\* a component derives its net monthly income from the income record
DeriveNetMonthlyIncome ==
  /\ UNCHANGED <<taxVars, retireVars, monthlyExp, cashFlow, categorySpending, serverVars, coreCalls,
                 concurrentVars, quickStats>>
  /\ \E component \in NetIncomeComponents, income \in IncomeRecords :
       netIncome' =
         [called |-> TRUE, component |-> component, income |-> income,
          netMonthlyIncome |-> NetMonthlyIncome(component, income)]

----------------------------------------------------------------------------
(* POST /api/income: insertIncomeDataSchema and storage.upsertIncomeData    *)

\* a field of the request body: absent, or a string
Missing == [present |-> FALSE, text |-> ""]

Field(text) == [present |-> TRUE, text |-> text]

\* Number(val) of the strings that occur in the requests
StringNumber ==
  ("" :> Zero) @@ ("abc" :> NaN) @@ ("-5" :> Num(-5)) @@ ("0" :> Zero) @@
  ("3" :> Num(3)) @@ ("5" :> Num(5)) @@ ("150" :> Num(150)) @@
  ("1200" :> Num(1200)) @@ ("7000" :> Num(7000)) @@
  ("50000" :> Num(50000)) @@ ("60000" :> Num(60000))

NumberOf(text) == StringNumber[text]

\* parseFloat(text): as Number(text), except that the empty string gives NaN
ParseFloat(text) == IF text = "" THEN NaN ELSE StringNumber[text]

\* val => !isNaN(Number(val)) && Number(val) >= 0
ValidMoney(field) ==
  field.present /\ IsNum(NumberOf(field.text)) /\ Le(Zero, NumberOf(field.text))

\* z.string().min(1, ...).refine(...)
ValidAnnualSalary(field) == field.present /\ field.text # "" /\ ValidMoney(field)

\* val => !isNaN(Number(val)) && Number(val) >= 0 && Number(val) <= 100
ValidPercentUnbounded(field) == ValidMoney(field)

ValidPercent(field) == ValidMoney(field) /\ Le(NumberOf(field.text), Num(100))

\* z.string().optional().refine(val => !val || (...))
ValidOptionalMoneyLenient(field) == TRUE

ValidOptionalMoney(field) ==
  \/ ~field.present
  \/ field.text = ""
  \/ ValidMoney(field)

\* insertIncomeDataSchema.parse(...) does not throw
SchemaAccepts(body) ==
  /\ ValidAnnualSalary(body.annualSalary)
  /\ ValidPercent(body.contribution401k)
  /\ ValidPercent(body.companyMatch)
  /\ ValidMoney(body.rothIRA)
  /\ ValidOptionalMoney(body.sideHustleIncome)
  /\ ValidOptionalMoney(body.inheritance)

\* validatedData.field || "0"
TextOrZero(field) == IF field.present /\ field.text # "" THEN field.text ELSE "0"

\* the incomeData object handed to storage.upsertIncomeData
IncomeDataOf(body) ==
  [annualSalary |-> body.annualSalary.text,
   contribution401k |-> body.contribution401k.text,
   companyMatch |-> body.companyMatch.text,
   rothIRA |-> body.rothIRA.text,
   sideHustleIncome |-> TextOrZero(body.sideHustleIncome),
   inheritance |-> TextOrZero(body.inheritance)]

\* request bodies
RequestBodies ==
  [annualSalary : {Field("abc"), Field("50000"), Field("60000")},
   contribution401k : {Field("150"), Field("5")},
   companyMatch : {Field("-5"), Field("3")},
   rothIRA : {Field("abc"), Field("7000")},
   sideHustleIncome : {Missing, Field(""), Field("abc"), Field("-5"), Field("1200")},
   inheritance : {Field(""), Field("abc")}]

NoBody ==
  [annualSalary |-> Missing, contribution401k |-> Missing, companyMatch |-> Missing,
   rothIRA |-> Missing, sideHustleIncome |-> Missing, inheritance |-> Missing]

\* no row of income_data for the user
NoRow ==
  [annualSalary |-> "", contribution401k |-> "", companyMatch |-> "", rothIRA |-> "",
   sideHustleIncome |-> "", inheritance |-> ""]

NoRequest == [posted |-> FALSE, authenticated |-> FALSE, body |-> NoBody]

NoResponse == [status |-> 0, storageCalled |-> FALSE]

InitServer ==
  /\ incomeRow = NoRow
  /\ request = NoRequest
  /\ response = NoResponse

\* requireAuth: a request without a session is answered with 401
PostIncomeUnauthenticated ==
  /\ UNCHANGED <<taxVars, retireVars, viewVars, incomeRow, accountVars,
                 concurrentVars, quickStats>>
  /\ request' = [posted |-> TRUE, authenticated |-> FALSE, body |-> NoBody]
  /\ response' = [status |-> 401, storageCalled |-> FALSE]

\* app.post("/api/income", requireAuth, ...) for a logged-in user
PostIncome ==
  /\ UNCHANGED <<taxVars, retireVars, viewVars, accountVars,
                 concurrentVars, quickStats>>
  /\ \E body \in RequestBodies :
       /\ request' = [posted |-> TRUE, authenticated |-> TRUE, body |-> body]
       /\ IF SchemaAccepts(body)
          THEN /\ incomeRow' = IncomeDataOf(body)
               /\ response' = [status |-> 200, storageCalled |-> TRUE]
          ELSE /\ incomeRow' = incomeRow
               /\ response' = [status |-> 400, storageCalled |-> FALSE]

NextServer == PostIncomeUnauthenticated \/ PostIncome

\* parseFloat(income.sideHustleIncome || "0") of the calculators
MoneyOfRow(text) == ParseFloat(IF text = "" THEN "0" ELSE text)

----------------------------------------------------------------------------
(* The account routes of server/routes.ts: register, login, logout, the     *)
(* profile and the admin panel, over the users table and the sessions       *)

\* the browser sessions
SessionIds == {1, 2}

Emails == {"ann@example.com", "bob@example.com"}

\* the phone the admin check compares with, and another one
ADMIN_PHONE == "2402857119"

Phones == {ADMIN_PHONE, "2405550100"}

\* the passwords sent: two valid ones and one shorter than six characters
Passwords == {"secret1", "hunter22", "abc"}

RegisterPasswords == {"secret1", "abc"}

\* z.string().min(6, "Password must be at least 6 characters")
ValidPassword(password) == Len(password) >= 6

\* bcrypt.hash(password, 12) and bcrypt.compare(password, hash)
BcryptHash(password) == <<"bcrypt", password>>

BcryptCompare(password, hash) == hash = BcryptHash(password)

\* storage.getUserByEmail(email): the id of the user, 0 when there is none
getUserByEmail(email) ==
  IF \E id \in 1..Len(users) : users[id].email = email
  THEN CHOOSE id \in 1..Len(users) : users[id].email = email
  ELSE 0

\* if (!req.session.userId) return res.status(401)
requireAuthAlways(session) == TRUE

requireAuth(session) == sessions[session] # 0

\* currentUser.phone !== "2402857119"
IsAdminPhonePrefix(phone) == SubSeq(phone, 1, 3) = SubSeq(ADMIN_PHONE, 1, 3)

IsAdminPhone(phone) == phone = ADMIN_PHONE

NoReply == [route |-> "", session |-> 0, status |-> 0]

Reply(route, session, status) == [route |-> route, session |-> session, status |-> status]

InitAccounts ==
  /\ users = <<>>
  /\ sessions = [session \in SessionIds |-> 0]
  /\ expenseRows = <<>>
  /\ reply = NoReply

\* POST /api/auth/register
Register ==
  /\ UNCHANGED <<taxVars, retireVars, viewVars, incomeRow, request, response,
                 expenseRows,
                 concurrentVars, quickStats>>
  /\ \E session \in SessionIds, email \in Emails, phone \in Phones,
        password \in RegisterPasswords :
       IF ValidPassword(password) /\ getUserByEmail(email) = 0
       THEN /\ users' =
                 Append(users,
                        [email |-> email, phone |-> phone,
                         password |-> BcryptHash(password),
                         registeredPhone |-> phone])
            /\ sessions' = [sessions EXCEPT ![session] = Len(users) + 1]
            /\ reply' = Reply("POST /api/auth/register", session, 200)
       ELSE /\ UNCHANGED <<users, sessions>>
            /\ reply' = Reply("POST /api/auth/register", session, 400)

\* POST /api/auth/login
Login ==
  /\ UNCHANGED <<taxVars, retireVars, viewVars, incomeRow, request, response,
                 expenseRows, users,
                 concurrentVars, quickStats>>
  /\ \E session \in SessionIds, email \in Emails, password \in Passwords :
       LET id == getUserByEmail(email)
       IN IF ~ValidPassword(password)
          THEN /\ UNCHANGED sessions
               /\ reply' = Reply("POST /api/auth/login", session, 400)
          ELSE IF id = 0 \/ ~BcryptCompare(password, users[id].password)
          THEN /\ UNCHANGED sessions
               /\ reply' = Reply("POST /api/auth/login", session, 401)
          ELSE /\ sessions' = [sessions EXCEPT ![session] = id]
               /\ reply' = Reply("POST /api/auth/login", session, 200)

\* POST /api/auth/logout: req.session.destroy
Logout ==
  /\ UNCHANGED <<taxVars, retireVars, viewVars, incomeRow, request, response,
                 expenseRows, users,
                 concurrentVars, quickStats>>
  /\ \E session \in SessionIds :
       /\ sessions' = [sessions EXCEPT ![session] = 0]
       /\ reply' = Reply("POST /api/auth/logout", session, 200)

\* GET /api/auth/me
GetMe ==
  /\ UNCHANGED <<taxVars, retireVars, viewVars, incomeRow, request, response,
                 expenseRows, users, sessions,
                 concurrentVars, quickStats>>
  /\ \E session \in SessionIds :
       reply' =
         Reply("GET /api/auth/me", session,
               IF ~requireAuth(session) THEN 401
               ELSE IF sessions[session] \notin 1..Len(users) THEN 404
               ELSE 200)

\* the email and phone of the body of PUT /api/user/profile
ProfileBodies == [email : {Missing} \cup {Field(e) : e \in Emails},
                  phone : {Missing} \cup {Field(p) : p \in Phones}]

\* PUT /api/user/profile: storage.updateUser(req.session.userId, {...})
UpdateProfile ==
  /\ UNCHANGED <<taxVars, retireVars, viewVars, incomeRow, request, response,
                 expenseRows, sessions,
                 concurrentVars, quickStats>>
  /\ \E session \in SessionIds, body \in ProfileBodies :
       LET id == sessions[session]
           taken ==
             /\ body.email.present
             /\ getUserByEmail(body.email.text) \notin {0, id}
       IN IF ~requireAuth(session)
          THEN /\ UNCHANGED users
               /\ reply' = Reply("PUT /api/user/profile", session, 401)
          ELSE IF taken
          THEN /\ UNCHANGED users
               /\ reply' = Reply("PUT /api/user/profile", session, 500)
          ELSE /\ users' =
                    [users EXCEPT
                       ![id].email =
                         IF body.email.present THEN body.email.text ELSE @,
                       ![id].phone =
                         IF body.phone.present THEN body.phone.text ELSE @]
               /\ reply' = Reply("PUT /api/user/profile", session, 200)

\* GET /api/admin/users
GetAdminUsers ==
  /\ UNCHANGED <<taxVars, retireVars, viewVars, incomeRow, request, response,
                 expenseRows, users, sessions,
                 concurrentVars, quickStats>>
  /\ \E session \in SessionIds :
       reply' =
         Reply("GET /api/admin/users", session,
               IF ~requireAuth(session) THEN 401
               ELSE IF sessions[session] \notin 1..Len(users)
                       \/ ~IsAdminPhone(users[sessions[session]].phone)
               THEN 403
               ELSE 200)

NextAuth == Register \/ Login \/ Logout \/ GetMe \/ UpdateProfile \/ GetAdminUsers

----------------------------------------------------------------------------
(* The expense routes of server/routes.ts over the expenses table; the id   *)
(* of a row is its position, deletedBy records the user whose DELETE        *)
(* deactivated it                                                           *)

\* the most rows of the expenses table
MaxExpenseRows == 1

ExpenseIds == 1..(MaxExpenseRows + 1)

\* insertExpenseSchema.partial(): amount, userId and isActive of the body of
\* PUT /api/expenses/:id, each of them optional (0 and "" when left out)
ExpenseUpdates ==
  [amount : {"", "250.00"}, userId : {0, 1, 2}, isActive : {"", "true"}]

\* storage.getExpenses(userId): the ids of the active rows of the user
getExpenses(userId) ==
  {id \in 1..Len(expenseRows) :
     expenseRows[id].userId = userId /\ expenseRows[id].isActive}

\* GET /api/expenses
GetExpenses ==
  /\ UNCHANGED <<taxVars, retireVars, viewVars, incomeRow, request, response,
                 users, sessions, expenseRows, concurrentVars, quickStats>>
  /\ \E session \in SessionIds :
       reply' =
         Reply("GET /api/expenses", session,
               IF ~requireAuth(session) THEN 401 ELSE 200)

\* POST /api/expenses: the row gets the userId of the session
CreateExpense ==
  /\ UNCHANGED <<taxVars, retireVars, viewVars, incomeRow, request, response,
                 users, sessions, concurrentVars, quickStats>>
  /\ \E session \in SessionIds :
       IF ~requireAuth(session)
       THEN /\ UNCHANGED expenseRows
            /\ reply' = Reply("POST /api/expenses", session, 401)
       ELSE /\ Len(expenseRows) < MaxExpenseRows
            /\ expenseRows' =
                 Append(expenseRows,
                        [userId |-> sessions[session], amount |-> "100.00",
                         isActive |-> TRUE, deletedBy |-> 0])
            /\ reply' = Reply("POST /api/expenses", session, 200)

\* PUT /api/expenses/:id: storage.updateExpense(expenseId, expenseData) sets
\* the fields of the body where the id matches
UpdateExpense ==
  /\ UNCHANGED <<taxVars, retireVars, viewVars, incomeRow, request, response,
                 users, sessions, concurrentVars, quickStats>>
  /\ \E session \in SessionIds, expenseId \in ExpenseIds,
        expenseData \in ExpenseUpdates :
       IF ~requireAuth(session)
       THEN /\ UNCHANGED expenseRows
            /\ reply' = Reply("PUT /api/expenses/:id", session, 401)
       ELSE IF \/ expenseData = [amount |-> "", userId |-> 0, isActive |-> ""]
               \/ expenseData.userId \notin 0..Len(users)
       THEN /\ UNCHANGED expenseRows
            /\ reply' = Reply("PUT /api/expenses/:id", session, 400)
       ELSE IF expenseId \notin 1..Len(expenseRows)
       THEN /\ UNCHANGED expenseRows
            /\ reply' = Reply("PUT /api/expenses/:id", session, 404)
       ELSE /\ expenseRows' =
                 [expenseRows EXCEPT
                    ![expenseId].amount =
                      IF expenseData.amount # "" THEN expenseData.amount ELSE @,
                    ![expenseId].userId =
                      IF expenseData.userId # 0 THEN expenseData.userId ELSE @,
                    ![expenseId].isActive =
                      IF expenseData.isActive # "" THEN TRUE ELSE @]
            /\ reply' = Reply("PUT /api/expenses/:id", session, 200)

\* DELETE /api/expenses/:id: storage.deleteExpense(expenseId, userId) sets
\* isActive to false where the id and the userId match
DeleteExpense ==
  /\ UNCHANGED <<taxVars, retireVars, viewVars, incomeRow, request, response,
                 users, sessions, concurrentVars, quickStats>>
  /\ \E session \in SessionIds, expenseId \in ExpenseIds :
       IF ~requireAuth(session)
       THEN /\ UNCHANGED expenseRows
            /\ reply' = Reply("DELETE /api/expenses/:id", session, 401)
       ELSE IF \/ expenseId \notin 1..Len(expenseRows)
               \/ expenseRows[expenseId].userId # sessions[session]
       THEN /\ UNCHANGED expenseRows
            /\ reply' = Reply("DELETE /api/expenses/:id", session, 404)
       ELSE /\ expenseRows' =
                 [expenseRows EXCEPT
                    ![expenseId].isActive = FALSE,
                    ![expenseId].deletedBy = sessions[session]]
            /\ reply' = Reply("DELETE /api/expenses/:id", session, 200)

NextExpenses ==
  Register \/ GetExpenses \/ CreateExpense \/ UpdateExpense \/ DeleteExpense

----------------------------------------------------------------------------
(* QuickStats of client/src/components/quick-stats.tsx: the net monthly     *)
(* income, the monthly expenses and the cash flow behind the savings rate   *)

\* expenses.reduce of QuickStats, from the left
RECURSIVE QuickStatsMonthlyExpenses(_, _)
QuickStatsMonthlyExpenses(total, expenses) ==
  IF expenses = <<>> THEN total
  ELSE QuickStatsMonthlyExpenses(Add(total, MonthlyAmount("QuickStats", Head(expenses))),
                                 Tail(expenses))

\* expenses.reduce((sum, expense) => sum + parseFloat(expense.amount), 0)
RECURSIVE SumOfAmounts(_, _)
SumOfAmounts(sum, expenses) ==
  IF expenses = <<>> THEN sum
  ELSE SumOfAmounts(Add(sum, Head(expenses).amount), Tail(expenses))

\* the two versions of calculateMonthlyCashFlow "@/lib/utils" may resolve to
CashFlowVersions == {"utils.ts", "part_000"}

\* an array where a number is expected: [] converts to 0, an array of
\* expense objects to NaN; an income object converts to NaN
ArrayToNumber(expenses) == IF expenses = <<>> THEN Zero ELSE NaN

\* calculateMonthlyCashFlow(income, expenses) as QuickStats calls it, with
\* the income record and the expense list
calculateMonthlyCashFlowOfRecords(version, income, expenses) ==
  IF version = "utils.ts"
  THEN calculateMonthlyCashFlow(NaN, ArrayToNumber(expenses))
  ELSE calculateMonthlyCashFlow(NetMonthlyOnGross(income), SumOfAmounts(Zero, expenses))

\* monthlyIncome > 0 ? (cashFlow.amount / monthlyIncome) * 100 : 0
SavingsRate(monthlyIncome, amount) ==
  IF Gt(monthlyIncome, Zero) THEN Mul(Div(amount, monthlyIncome), Num(100)) ELSE Zero

QuickStatsIdle == [called |-> FALSE]

InitQuickStats == quickStats = QuickStatsIdle

\* one rendering of QuickStats with an income record and an expense list
RenderQuickStats ==
  /\ ~quickStats.called
  /\ UNCHANGED <<taxVars, retireVars, viewVars, serverVars, concurrentVars>>
  /\ \E version \in CashFlowVersions, income \in IncomeRecords,
        expenses \in SeqsUpTo(Expenses, MaxExpenses) :
       LET monthlyIncome == NetMonthlyIncome("QuickStats", income)
           monthlyExpenses == QuickStatsMonthlyExpenses(Zero, expenses)
           cashFlowOfRecords == calculateMonthlyCashFlowOfRecords(version, income, expenses)
       IN quickStats' =
            [called |-> TRUE, version |-> version, income |-> income,
             expenses |-> expenses, monthlyIncome |-> monthlyIncome,
             monthlyExpenses |-> monthlyExpenses, cashFlow |-> cashFlowOfRecords,
             savingsRate |-> SavingsRate(monthlyIncome, cashFlowOfRecords.amount)]

----------------------------------------------------------------------------
(* POST /api/auth/register served step by step: the handler awaits          *)
(* storage.getUserByEmail, bcrypt.hash and storage.createUser, and the      *)
(* handlers of other requests run in between                                *)

NoRegister == [email |-> "", phone |-> "", password |-> ""]

\* email: text("email").notNull().unique(): the insert of a second row with
\* the email is refused
EmailUniqueUnenforced(email) == TRUE

EmailUnique(email) == getUserByEmail(email) = 0

\* registerSchema.parse and the check of storage.getUserByEmail
RegisterCheck ==
  /\ UNCHANGED <<taxVars, retireVars, viewVars, incomeRow, request, response,
                 expenseRows, users, sessions, incomeRows, upserting,
                 lastUpsert, quickStats>>
  /\ \E session \in SessionIds, email \in Emails, phone \in Phones,
        password \in RegisterPasswords :
       /\ registering[session] = NoRegister
       /\ IF ValidPassword(password) /\ getUserByEmail(email) = 0
          THEN /\ registering' =
                    [registering EXCEPT
                       ![session] = [email |-> email, phone |-> phone,
                                     password |-> password]]
               /\ UNCHANGED reply
          ELSE /\ UNCHANGED registering
               /\ reply' = Reply("POST /api/auth/register", session, 400)

\* bcrypt.hash, storage.createUser and req.session.userId = user.id; the
\* insert throws when the email is stored by now, and the catch answers 400
RegisterCreate ==
  /\ UNCHANGED <<taxVars, retireVars, viewVars, incomeRow, request, response,
                 expenseRows, incomeRows, upserting, lastUpsert, quickStats>>
  /\ \E session \in SessionIds :
       LET userData == registering[session]
       IN /\ userData # NoRegister
          /\ registering' = [registering EXCEPT ![session] = NoRegister]
          /\ IF EmailUnique(userData.email)
             THEN /\ users' =
                       Append(users,
                              [email |-> userData.email, phone |-> userData.phone,
                               password |-> BcryptHash(userData.password),
                               registeredPhone |-> userData.phone])
                  /\ sessions' = [sessions EXCEPT ![session] = Len(users) + 1]
                  /\ reply' = Reply("POST /api/auth/register", session, 200)
             ELSE /\ UNCHANGED <<users, sessions>>
                  /\ reply' = Reply("POST /api/auth/register", session, 400)

NextRegister == RegisterCheck \/ RegisterCreate \/ Logout

----------------------------------------------------------------------------
(* storage.upsertIncomeData called by several requests at once: the call    *)
(* awaits getIncomeData and then the update or the insert                   *)

\* the most calls in progress at once
MaxUpsertCalls == 2

UpsertCalls == 1..MaxUpsertCalls

UpsertUserIds == {1, 2}

UpsertSalaries == {"50000.00", "60000.00"}

NoUpsert == [userId |-> 0, annualSalary |-> "", existing |-> FALSE]

NoIncomeData == ""

\* db.select().from(incomeData).where(eq(incomeData.userId, userId)): the
\* rows of the user, in no specified order
SelectIncomeData(userId) ==
  {incomeRows[i].annualSalary :
     i \in {j \in 1..Len(incomeRows) : incomeRows[j].userId = userId}}

InitConcurrent ==
  /\ registering = [session \in SessionIds |-> NoRegister]
  /\ incomeRows = <<>>
  /\ upserting = [call \in UpsertCalls |-> NoUpsert]
  /\ lastUpsert = [userId \in UpsertUserIds |-> NoIncomeData]

\* const existing = await this.getIncomeData(data.userId)
UpsertRead ==
  /\ UNCHANGED <<taxVars, retireVars, viewVars, serverVars, registering,
                 incomeRows, lastUpsert, quickStats>>
  /\ \E call \in UpsertCalls, userId \in UpsertUserIds,
        annualSalary \in UpsertSalaries :
       /\ upserting[call] = NoUpsert
       /\ upserting' =
            [upserting EXCEPT
               ![call] = [userId |-> userId, annualSalary |-> annualSalary,
                          existing |-> SelectIncomeData(userId) # {}]]

\* if (existing) update ... where userId, else insert
UpsertWrite ==
  /\ UNCHANGED <<taxVars, retireVars, viewVars, serverVars, registering,
                 quickStats>>
  /\ \E call \in UpsertCalls :
       LET data == upserting[call]
       IN /\ data # NoUpsert
          /\ upserting' = [upserting EXCEPT ![call] = NoUpsert]
          /\ incomeRows' =
               IF data.existing
               THEN [i \in 1..Len(incomeRows) |->
                       IF incomeRows[i].userId = data.userId
                       THEN [incomeRows[i] EXCEPT !.annualSalary = data.annualSalary]
                       ELSE incomeRows[i]]
               ELSE Append(incomeRows,
                           [userId |-> data.userId,
                            annualSalary |-> data.annualSalary])
          /\ lastUpsert' = [lastUpsert EXCEPT ![data.userId] = data.annualSalary]

NextUpsert == UpsertRead \/ UpsertWrite

----------------------------------------------------------------------------
(* The core functions of client/src/lib/utils.ts called one after another   *)

\* the longest sequence of calls
MaxCoreCalls == 3

CoreTaxArgs == {<<Num(30000), "Texas">>, <<Num(60000), "California">>}

CoreRetirementArgs ==
  {<<30, 31, Num(10), Num(5), Num(12)>>, <<30, 30, Num(50), Num(10), Num(0)>>}

CoreCashFlowArgs == {<<Num(5000), Num(5000)>>, <<Num(1000), Num(2000)>>}

InitCore == coreCalls = <<>>

CoreCalculateTax ==
  /\ Len(coreCalls) < MaxCoreCalls
  /\ UNCHANGED <<taxVars, retireVars, monthlyExp, cashFlow, categorySpending,
                 netIncome, serverVars,
                 concurrentVars, quickStats>>
  /\ \E args \in CoreTaxArgs :
       coreCalls' =
         Append(coreCalls,
                [fn |-> "calculateTax", args |-> args,
                 result |-> calculateTax(args[1], args[2])])

CoreCalculateRetirement ==
  /\ Len(coreCalls) < MaxCoreCalls
  /\ UNCHANGED <<taxVars, retireVars, monthlyExp, cashFlow, categorySpending,
                 netIncome, serverVars,
                 concurrentVars, quickStats>>
  /\ \E args \in CoreRetirementArgs :
       coreCalls' =
         Append(coreCalls,
                [fn |-> "calculateRetirement", args |-> args,
                 result |->
                   calculateRetirementAnnuity(args[1], args[2], args[3], args[4],
                                              args[5])])

CoreCalculateMonthlyCashFlow ==
  /\ Len(coreCalls) < MaxCoreCalls
  /\ UNCHANGED <<taxVars, retireVars, monthlyExp, cashFlow, categorySpending,
                 netIncome, serverVars,
                 concurrentVars, quickStats>>
  /\ \E args \in CoreCashFlowArgs :
       coreCalls' =
         Append(coreCalls,
                [fn |-> "calculateMonthlyCashFlow", args |-> args,
                 result |-> calculateMonthlyCashFlow(args[1], args[2])])

NextCore == CoreCalculateTax \/ CoreCalculateRetirement \/ CoreCalculateMonthlyCashFlow

----------------------------------------------------------------------------
(* Properties of calculateRetirement *)

\* the smaller of two percentages
MinPercent(p, q) == IF Le(p, q) THEN p ELSE q

C7_ZeroYearsKeepsCurrentBalances ==
  /\ (annuity.called /\ annuity.retirementAge = annuity.currentAge)
       => /\ annuity.projectedSavings = annuity.currentSavings
          /\ annuity.monthlyIncome =
               Div(Mul(annuity.currentSavings, Rat(4, 100)), Num(12))
  /\ (retire.pc = "done" /\ retire.retirementAge = retire.currentAge)
       => /\ retire.year = 0
          /\ retire.projectedSavings = retire.currentSavings
          /\ retire.monthlyIncome =
               Div(Mul(retire.currentSavings, Rat(4, 100)), Num(12))

\* C8: when the target age is below the current age no year is projected and
\* the balance is left at its input value, neither grown nor discounted, so
\* projectedSavings equals the current balance.
C8_PastTargetAgeKeepsCurrentBalances ==
  (retire.pc = "done" /\ retire.retirementAge < retire.currentAge)
    => /\ retire.year = 0
       /\ retire.totalContributions = Zero
       /\ retire.projectedSavings = retire.currentSavings

\* the salary on which the contributions of projected year k (1, 2, ...) are
\* computed, and that year's employee contribution and company match
SalaryOfYear(r, k) ==
  Mul(r.initialAnnualSalary,
      MathPow(Add(Num(1), Div(r.promotionPercentage, Num(100))), k - 1))

ContributionOfYear(r, k) ==
  LET e == Mul(SalaryOfYear(r, k), Div(r.contribution401kPercent, Num(100)))
      m == Mul(SalaryOfYear(r, k),
               Div(MinPercent(r.contribution401kPercent, r.companyMatch), Num(100)))
  IN Add(e, m)

\* the balance after year k when each year's contribution is added to the
\* balance before that year's growth factor is applied
RECURSIVE BalanceAfterYear(_, _)
BalanceAfterYear(r, k) ==
  IF k = 0 THEN r.currentSavings
  ELSE Mul(Add(BalanceAfterYear(r, k - 1), ContributionOfYear(r, k)),
           Add(Num(1), r.annualReturn))

RECURSIVE RothAfterYear(_, _, _)
RothAfterYear(start, real, k) ==
  IF k = 0 THEN start
  ELSE Mul(Add(RothAfterYear(start, real, k - 1), Num(7000)), Add(Num(1), real))

\* all inputs zero, one year, 7% nominal return and 3% inflation
ReferenceScenario ==
  /\ proj.years = 1
  /\ proj.nominalReturn = Rat(7, 100) /\ proj.inflationRate = Rat(3, 100)
  /\ proj.startSalary = Zero /\ proj.startMonthlySavings = Zero
  /\ proj.current401k = Zero /\ proj.currentRothIRA = Zero
  /\ proj.currentOther = Zero
  /\ proj.contribution401kPct = Zero /\ proj.companyMatchPct = Zero
  /\ proj.promotionPct = Zero

\* C10: in every projected year the Roth IRA balance becomes (previous
\* balance + 7000) * (1 + real), 7000 being independent of salary, of the
\* contribution percentages and of the monthly savings; in the reference
\* scenario the 401k and other-investment balances stay 0 and
\* projectedSavings = 7000 * (1.07 / 1.03).
C10_RothFixedContribution ==
  /\ proj.pc \in {"loop", "done"}
       => proj.balanceRoth = RothAfterYear(proj.currentRothIRA, proj.real, proj.year)
  /\ (proj.pc = "done" /\ ReferenceScenario)
       => /\ proj.balance401k = Zero
          /\ proj.balanceOther = Zero
          /\ proj.balanceRoth = Rat(7000 * 107, 103)
          /\ proj.projectedSavings = Rat(7000 * 107, 103)

\* C10 witness: the reference scenario has been projected to its end, and
\* its result rounds to 7271.84
C10_Witness ==
  /\ proj.pc = "done" /\ ReferenceScenario /\ proj.year = 1
  /\ Lt(Rat(727184, 100), proj.projectedSavings)
  /\ Lt(proj.projectedSavings, Rat(727185, 100))

\* the salary after k raises
RaisedSalary(r, k) ==
  Mul(r.initialAnnualSalary,
      MathPow(Add(Num(1), Div(r.promotionPercentage, Num(100))), k))

C11_LeftoverSavingsNeverNegative ==
  [][ProjectYear =>
       LET annual == Mul(proj.monthlySavings, Num(12))
           total == Add(Add(proj'.employeeContrib, proj'.companyMatch), Num(7000))
       IN /\ Le(Zero, proj'.remaining)
          /\ Gt(annual, total) => proj'.remaining = Sub(annual, total)
          /\ Le(annual, total)
               => /\ proj'.remaining = Zero
                  /\ proj'.balanceOther =
                       Mul(proj.balanceOther, Add(Num(1), proj.real))]_vars

\* C11 witness: a year was projected in which the retirement contributions
\* exceeded the annual savings, for a positive other-investments balance and
\* positive savings
C11_Witness ==
  /\ proj.pc = "loop" /\ proj.year = 1
  /\ Gt(proj.startMonthlySavings, Zero)
  /\ Gt(proj.currentOther, Zero)
  /\ Gt(Add(Add(proj.employeeContrib, proj.companyMatch), Num(7000)),
        Mul(proj.startMonthlySavings, Num(12)))
  /\ proj.remaining = Zero
  /\ proj.balanceOther = Mul(proj.currentOther, Add(Num(1), proj.real))

\* the withdrawal rate of the plan, 4% when none is given
PlanWithdrawalRate(r) ==
  IF IsNum(r.planWithdrawalRate) THEN r.planWithdrawalRate ELSE Rat(4, 100)

\* C13: after the last projected year projectedSavings is the sum of the final
\* balances (the grown starting balance and the grown contributions) and
\* monthlyIncome = projectedSavings * withdrawalRate / 12, withdrawalRate being
\* the plan's withdrawal rate and 4% only when none is given.
C13_MonthlyIncomeAtPlanWithdrawalRate ==
  retire.pc = "done"
    => /\ retire.projectedSavings =
            Add(retire.futureValueCurrent, retire.totalContributions)
       /\ retire.monthlyIncome =
            Div(Mul(retire.projectedSavings, PlanWithdrawalRate(retire)), Num(12))

\* C14: every compounding step uses the real rate
\* (1 + nominalReturn) / (1 + inflationRate) - 1 and never the nominal return:
\* the starting balance is grown by (1 + real) per projected year.
C14_GrowthAtRealRate ==
  [][(RetireCall /\ retire'.yearsToRetirement >= 0) =>
       retire'.futureValueCurrent =
         Mul(retire'.currentSavings,
             MathPow(Add(Num(1),
                         RealRate(retire'.annualReturn, retire'.planInflationRate)),
                     retire'.yearsToRetirement))]_vars

\* the multiplier of a frequency: monthly 1, weekly 4.33, bi-weekly 2.17,
\* yearly 1/12, one-time 1/12
FrequencyMultiplier(frequency) ==
  CASE frequency = "monthly" -> Num(1)
    [] frequency = "weekly" -> Rat(433, 100)
    [] frequency = "bi-weekly" -> Rat(217, 100)
    [] frequency = "yearly" -> Rat(1, 12)
    [] frequency = "one-time" -> Rat(1, 12)

RECURSIVE NormalizedSum(_, _)
NormalizedSum(expenses, n) ==
  IF n = 0 THEN Zero
  ELSE Add(NormalizedSum(expenses, n - 1),
           Mul(expenses[n].amount, FrequencyMultiplier(expenses[n].frequency)))

\* C15: every component's monthly expense total is the sum of amount *
\* multiplier over the expense list, with monthly 1, weekly 4.33, bi-weekly
\* 2.17, yearly 1/12 and one-time 1/12: a weekly 100 contributes 433 and a
\* yearly 1200 contributes 100.
C15_MonthlyTotalNormalizesEveryFrequency ==
  (monthlyExp.pc = "reduce" /\ monthlyExp.index = Len(monthlyExp.expenses))
    => monthlyExp.total = NormalizedSum(monthlyExp.expenses, Len(monthlyExp.expenses))

\* C16: calculateMonthlyCashFlow returns amount = netIncome - totalExpenses;
\* percentage = amount / netIncome * 100 when netIncome > 0 and 0 when
\* netIncome <= 0, always a number; status 'positive' iff amount > 0,
\* 'negative' iff amount < 0 and 'break-even' iff amount = 0.
C16_CashFlowAmountPercentageStatus ==
  cashFlow.called
    => /\ cashFlow.amount = Sub(cashFlow.monthlyIncome, cashFlow.monthlyExpenses)
       /\ IsNum(cashFlow.percentage)
       /\ Gt(cashFlow.monthlyIncome, Zero)
            => cashFlow.percentage =
                 Mul(Div(cashFlow.amount, cashFlow.monthlyIncome), Num(100))
       /\ Le(cashFlow.monthlyIncome, Zero) => cashFlow.percentage = Zero
       /\ cashFlow.status = "positive" <=> Gt(cashFlow.amount, Zero)
       /\ cashFlow.status = "negative" <=> Lt(cashFlow.amount, Zero)
       /\ cashFlow.status = "break-even" <=> cashFlow.amount = Zero

\* C16 witness: cashFlow(5000, 5000) is break-even with percentage 0
C16_Witness ==
  /\ cashFlow.called
  /\ cashFlow.monthlyIncome = Num(5000) /\ cashFlow.monthlyExpenses = Num(5000)
  /\ cashFlow.amount = Zero /\ cashFlow.percentage = Zero
  /\ cashFlow.status = "break-even"

\* C17: with budget = netMonthlyIncome * categoryFraction the status of a
\* category is 'over' iff its monthly total is above 100% of the budget,
\* 'warning' iff it is above 85% and at most 100% of it, and 'good'
\* otherwise, also when the budget is 0 or negative, where any positive
\* spending exceeds the budget.
C17_BudgetStatusByShareOfBudget ==
  categorySpending.called
    => LET amount == categorySpending.amount
           budget == categorySpending.budget
       IN /\ categorySpending.status = "over" <=> Gt(amount, budget)
          /\ categorySpending.status = "warning"
               <=> (Gt(amount, Mul(budget, Rat(85, 100))) /\ Le(amount, budget))
          /\ categorySpending.status = "good"
               <=> Le(amount, Mul(budget, Rat(85, 100)))

\* C18: the net monthly income of every component is
\* (T - federal(T) - state(T) - fica(T)) / 12 with
\* T = annualSalary + sideHustleIncome - annualSalary * contribution401kPct / 100
\* and the taxes of calculateTax(T, state).
C18_NetMonthlyIncomeOnTaxableIncome ==
  netIncome.called
    => LET T == TaxableIncome(netIncome.income)
       IN netIncome.netMonthlyIncome =
            Div(Sub(T, TaxTotal(calculateTax(T, netIncome.income.state))), Num(12))

\* the optional monetary fields of a request body
OptionalFields(body) == {body.sideHustleIncome, body.inheritance}

\* a field that is missing or empty
Blank(field) == ~field.present \/ field.text = ""

\* a field holding a non-numeric string
NonNumeric(field) == field.present /\ ~IsNum(NumberOf(field.text))

\* a field holding a negative number
Negative(field) == field.present /\ Lt(NumberOf(field.text), Zero)

RequiredValid(body) ==
  /\ ValidAnnualSalary(body.annualSalary)
  /\ ValidPercent(body.contribution401k)
  /\ ValidPercent(body.companyMatch)
  /\ ValidMoney(body.rothIRA)

RequiredFieldInvalid(body) ==
  \/ \E f \in {body.annualSalary, body.contribution401k, body.companyMatch,
               body.rothIRA} : NonNumeric(f) \/ Negative(f)
  \/ \E f \in {body.contribution401k, body.companyMatch} :
       f.present /\ Gt(NumberOf(f.text), Num(100))

\* C20: POST /api/income with a required field that is non-numeric, negative
\* or (contribution401k, companyMatch) outside 0..100 is answered with 400
\* before any storage call, and the stored income row is unchanged.
C20_InvalidRequiredFieldRejected ==
  [][(PostIncome /\ RequiredFieldInvalid(request'.body))
      => /\ response'.status = 400
         /\ ~response'.storageCalled
         /\ incomeRow' = incomeRow]_vars

\* C20 witness: with a row stored, a request with another salary and a 401k
\* contribution of 150 was rejected and the row kept
C20_Witness ==
  /\ request.posted /\ request.authenticated
  /\ request.body.contribution401k = Field("150")
  /\ ValidAnnualSalary(request.body.annualSalary)
  /\ ValidPercent(request.body.companyMatch) /\ ValidMoney(request.body.rothIRA)
  /\ ValidOptionalMoney(request.body.sideHustleIncome)
  /\ response.status = 400 /\ ~response.storageCalled
  /\ incomeRow # NoRow
  /\ incomeRow.annualSalary # request.body.annualSalary.text
  /\ incomeRow.contribution401k = "5"

\* C21: a category that is not a key of the category budget table gets the
\* budget fraction 0.05 and still a status, a listed category gets its
\* listed fraction, and the same category gets the same fraction in every
\* version of the table.
C21_CategoryFractionListedOrDefault ==
  categorySpending.called
    => LET table == CategoryBudgetsOf(categorySpending.version)
           category == categorySpending.category
       IN /\ category \notin DOMAIN table
               => categorySpending.budgetPercentage = Rat(5, 100)
          /\ category \in DOMAIN table
               => categorySpending.budgetPercentage = table[category]
          /\ categorySpending.status \in {"good", "warning", "over"}
          /\ \A version \in BudgetAnalysisVersions :
               BudgetPercentage(version, category) = categorySpending.budgetPercentage

\* the working state after k projected years, computed without any trace
RECURSIVE TrajectoryAfterYear(_, _)
TrajectoryAfterYear(p, k) ==
  IF k = 0
  THEN [salary |-> p.startSalary, monthlySavings |-> p.startMonthlySavings,
        balance401k |-> p.current401k, balanceRoth |-> p.currentRothIRA,
        balanceOther |-> p.currentOther]
  ELSE LET before == TrajectoryAfterYear(p, k - 1)
           raise == Add(Num(1), Div(p.promotionPct, Num(100)))
           salary == Mul(before.salary, raise)
           employeeContrib == Mul(salary, Div(p.contribution401kPct, Num(100)))
           companyMatch == Mul(salary, Div(p.companyMatchPct, Num(100)))
           leftover ==
             Sub(Mul(before.monthlySavings, Num(12)),
                 Add(Add(employeeContrib, companyMatch), Num(7000)))
           remaining == IF Gt(leftover, Zero) THEN leftover ELSE Zero
           growth == Add(Num(1), p.real)
       IN [salary |-> salary,
           monthlySavings |-> Mul(before.monthlySavings, raise),
           balance401k |->
             Mul(Add(Add(before.balance401k, employeeContrib), companyMatch), growth),
           balanceRoth |-> Mul(Add(before.balanceRoth, Num(7000)), growth),
           balanceOther |-> Mul(Add(before.balanceOther, remaining), growth)]

\* the years 1..n as trace entries
RECURSIVE YearEntries(_, _)
YearEntries(from, to) ==
  IF from > to THEN <<>>
  ELSE <<[kind |-> "year", year |-> from]>> \o YearEntries(from + 1, to)

\* the trace of a projection over n years
TraceOfYears(n) ==
  IF n <= 5 THEN YearEntries(1, n)
  ELSE YearEntries(1, 5)
         \o (IF n >= 7 THEN <<[kind |-> "placeholder", year |-> 0]>> ELSE <<>>)
         \o <<[kind |-> "year", year |-> n]>>

\* C22: the calculation trace has one entry for each of years 1 to 5 and for
\* the final year and a single placeholder for years 6..(final-1), and the
\* numeric result is that of the projection computed without a trace: the
\* final balances, projectedSavings and monthlyIncome do not depend on it.
C22_TraceTruncationIsCosmetic ==
  (proj.pc = "done" /\ proj.years >= 0)
    => LET final == TrajectoryAfterYear(proj, proj.years)
           total == Add(Add(final.balance401k, final.balanceRoth), final.balanceOther)
       IN /\ proj.calculationSteps = TraceOfYears(proj.years)
          /\ proj.balance401k = final.balance401k
          /\ proj.balanceRoth = final.balanceRoth
          /\ proj.balanceOther = final.balanceOther
          /\ proj.projectedSavings = total
          /\ proj.monthlyIncome = Div(Mul(total, proj.withdrawalRate), Num(12))

\* C22 witness: a projection over eight years has returned with seven trace
\* lines, the sixth being the placeholder for years 6 and 7
C22_Witness ==
  /\ proj.pc = "done" /\ proj.years = 8
  /\ Len(proj.calculationSteps) = 7
  /\ proj.calculationSteps[6].kind = "placeholder"
  /\ proj.calculationSteps[7] = [kind |-> "year", year |-> 8]
  /\ Gt(proj.balance401k, proj.current401k)
  /\ Gt(proj.balanceOther, proj.currentOther)

C24_AdminOnlyForAdminPhone ==
  reply.route = "GET /api/admin/users"
    => LET id == sessions[reply.session]
       IN /\ reply.status \in {401, 403, 200}
          /\ reply.status = 401 <=> id = 0
          /\ reply.status = 403 <=> (id # 0 /\ users[id].phone # "2402857119")
          /\ reply.status = 200 <=> (id # 0 /\ users[id].phone = "2402857119")

\* C24 witness: a logged-in user with another phone was answered 403 while
\* the other session belongs to the user with the admin phone
C24_Witness ==
  /\ reply.route = "GET /api/admin/users" /\ reply.status = 403
  /\ sessions[reply.session] # 0
  /\ users[sessions[reply.session]].phone = "2405550100"
  /\ \E session \in SessionIds :
       /\ sessions[session] \notin {0, sessions[reply.session]}
       /\ users[sessions[session]].phone = "2402857119"

\* C27: a user who registered with a phone other than "2402857119" never
\* gets another answer than 403 from GET /api/admin/users, whatever requests
\* the user has issued before, PUT /api/user/profile included.
C27_RegisteredPhoneDecidesAdmin ==
  (/\ reply.route = "GET /api/admin/users"
   /\ sessions[reply.session] # 0
   /\ users[sessions[reply.session]].registeredPhone # "2402857119")
    => reply.status = 403

\* the routes guarded by requireAuth
GuardedAccountRoutes ==
  {"GET /api/auth/me", "PUT /api/user/profile", "GET /api/admin/users"}

\* C29: the handler of a route guarded by requireAuth runs only for a
\* session that carries a userId; a session gets its userId only from a
\* successful register or login on that session, and loses it with logout;
\* otherwise the answer is 401 and storage is unchanged.
C29_GuardedRoutesNeedSessionUser ==
  [][/\ reply'.route \in GuardedAccountRoutes
          => /\ sessions[reply'.session] = 0
                  => /\ reply'.status = 401
                     /\ users' = users /\ expenseRows' = expenseRows
             /\ sessions[reply'.session] # 0 => reply'.status # 401
             /\ sessions' = sessions
     /\ \A session \in SessionIds :
          (sessions'[session] # sessions[session] /\ sessions'[session] # 0)
            => /\ reply'.route \in {"POST /api/auth/register", "POST /api/auth/login"}
               /\ reply'.session = session
               /\ reply'.status = 200
               /\ sessions'[session] \in 1..Len(users')
     /\ reply'.route = "POST /api/auth/logout" => sessions'[reply'.session] = 0]_vars

\* C29 witness: after a logout a profile update on that session was
\* answered 401 while the other session is still logged in
C29_Witness ==
  /\ reply.route = "PUT /api/user/profile" /\ reply.status = 401
  /\ sessions[reply.session] = 0
  /\ Len(users) = 2
  /\ \E session \in SessionIds : sessions[session] # 0

\* C25: after any interleaving of upsertIncomeData calls, income_data holds
\* at most one row for a userId, and the rows the select of getIncomeData
\* yields for the user are the data of the last upsert that returned.
C25_OneRowPerUserAfterUpserts ==
  \A userId \in UpsertUserIds :
    /\ Cardinality({i \in 1..Len(incomeRows) : incomeRows[i].userId = userId}) <= 1
    /\ lastUpsert[userId] # NoIncomeData
         => SelectIncomeData(userId) = {lastUpsert[userId]}

\* C26: an expense row is changed only by a request whose session userId is
\* the userId of the row, and an expense its owner has deleted is never
\* again among the expenses GET /api/expenses lists for that owner.
C26_ExpenseChangedByOwnerOnly ==
  [][\A id \in 1..Len(expenseRows) :
       /\ expenseRows'[id] # expenseRows[id]
            => sessions[reply'.session] = expenseRows[id].userId
       /\ expenseRows'[id].deletedBy # 0
            => id \notin {e \in 1..Len(expenseRows') :
                            /\ expenseRows'[e].userId = expenseRows'[id].deletedBy
                            /\ expenseRows'[e].isActive}]_vars

\* C28: the cash-flow amount QuickStats uses for the savings rate is the
\* displayed net monthly income minus the displayed monthly expenses.
C28_CashFlowIsDisplayedIncomeMinusExpenses ==
  quickStats.called
    => quickStats.cashFlow.amount =
         Sub(quickStats.monthlyIncome, quickStats.monthlyExpenses)

\* C30: no two stored users share an email; a register request whose email
\* is stored when it reaches the insert, or that fails the check, is
\* answered 400, creates no user and leaves the userId of its session as it
\* was.
C30_RegisterKeepsEmailsUnique ==
  [][/\ \A i, j \in 1..Len(users') : users'[i].email = users'[j].email => i = j
     /\ \A session \in SessionIds :
          (/\ registering[session] # NoRegister
           /\ registering'[session] = NoRegister
           /\ getUserByEmail(registering[session].email) # 0)
            => /\ reply' = Reply("POST /api/auth/register", session, 400)
               /\ users' = users
               /\ sessions' = sessions
     /\ (registering' = registering /\ reply'.route = "POST /api/auth/register")
          => /\ reply'.status = 400
             /\ users' = users
             /\ sessions' = sessions
     /\ Len(users') > Len(users)
          => /\ reply'.status = 200
             /\ sessions'[reply'.session] = Len(users')]_vars

\* C30 witness: two register requests passed the check with the same email
\* and the first of them has created its user; the other is about to insert
C30_Witness ==
  \E winner, loser \in SessionIds :
    /\ winner # loser
    /\ reply = Reply("POST /api/auth/register", winner, 200)
    /\ sessions[winner] = Len(users)
    /\ registering[loser] # NoRegister
    /\ users[sessions[winner]].email = registering[loser].email
    /\ sessions[loser] = 0

----------------------------------------------------------------------------
Init == InitTax /\ InitRetire /\ InitAnnuity /\ InitProj /\ InitMonthlyExp
        /\ InitCashFlow /\ InitCategorySpending /\ InitNetIncome
        /\ InitServer /\ InitCore /\ InitAccounts
        /\ InitConcurrent /\ InitQuickStats

SpecTax == Init /\ [][CalculateTax]_vars

SpecRetire == Init /\ [][NextRetire]_vars

SpecAnnuity == Init /\ [][CalculateRetirementAnnuity]_vars

SpecProject == Init /\ [][NextProject]_vars

SpecMonthlyExp == Init /\ [][NextMonthlyExp]_vars

SpecCashFlow == Init /\ [][CalculateMonthlyCashFlow]_vars

SpecBudget == Init /\ [][AnalyseCategory]_vars

SpecNetIncome == Init /\ [][DeriveNetMonthlyIncome]_vars

SpecServer == Init /\ [][NextServer]_vars

SpecCore == Init /\ [][NextCore]_vars

SpecAuth == Init /\ [][NextAuth]_vars

SpecExpenses == Init /\ [][NextExpenses]_vars

SpecQuickStats == Init /\ [][RenderQuickStats]_vars

SpecRegister == Init /\ [][NextRegister]_vars

SpecUpsert == Init /\ [][NextUpsert]_vars

====
